---- MODULE Spec2Model ----
(***************************************************************************)
(* Chain engine of backend/blockchain_core.py: Block (proof-of-work        *)
(* mining), Blockchain (append, reward ledger, validation, tamper,         *)
(* 51%-attack re-hash, reset) and Node (longest-valid-chain sync), with    *)
(* the node registry and the request threads of backend/app.py.            *)
(*                                                                         *)
(* SHA-256 is idealised: a hash is the pair of its leading hex digits      *)
(* (computed arithmetically from the hashed fields) and the hashed field   *)
(* tuple itself, so two hashes are equal exactly when the hashed fields    *)
(* are equal (collision resistance), while the leading digits vary with    *)
(* the nonce as proof-of-work needs.                                       *)
(***************************************************************************)
EXTENDS Integers, Sequences, FiniteSets, TLC

VARIABLES chain, chain_obj, pending_rewards, ret, story, calls, frames

vars == <<chain, chain_obj, pending_rewards, ret, story, calls, frames>>

----------------------------------------------------------------------------
(* Bounds and input sets.  Spec drives two nodes (reward mining, tamper,   *)
(* attack, reset, sync) with one input of each kind; ChainSpec drives one  *)
(* blockchain with every index input and both tamper payloads; MineSpec    *)
(* drives the appends with every difficulty, miner and timestamp;          *)
(* ValidateSpec applies validate_chain to arbitrary chains; GrowSpec lets  *)
(* a broken chain grow next to a peer; RegistrySpec drives the node        *)
(* registry of app.py; SyncRaceSpec and AppendRaceSpec interleave the      *)
(* statements of concurrent requests.                                      *)

MaxLen == 3

Nodes == {"A", "B"}

Main == "A"

Miners == {"alice", "bob"}

Timestamps == {1, 2}

Clock == {3}

DataValues == {"tx", "data"}

ChainData == "tx"

Difficulties == {0, 1, 2}

IndexInputs == -1 .. MaxLen

NetMiner == "alice"

NetTamperData == "evil"

NetTamperInputs == {1}

NetAttackInputs == {1}

----------------------------------------------------------------------------
(* Program constants *)

mining_reward == 50

GenesisDifficulty == 2

DefaultDifficulty == 2

(* The leading digits of a digest range over Digits (a hex digit ranges   *)
(* over 0..15; the smaller range keeps the nonce search short).           *)
Digits == 0 .. 3

Radix == Cardinality(Digits)

DigestSpace == Radix * Radix

None == "None"

GenesisPreviousHash == [hex |-> <<0>>, pre |-> <<>>]

----------------------------------------------------------------------------
(* Block *)

HexValue(hex) ==
    IF Len(hex) = 0 THEN 0
    ELSE IF Len(hex) = 1 THEN hex[1]
    ELSE hex[1] * Radix + hex[2]

Sha256(index, timestamp, data, previous_hash, nonce) ==
    LET v == (index * 7 + timestamp * 5 + Len(data) * 3
               + HexValue(previous_hash.hex) * 11 + nonce) % DigestSpace
    IN  [hex |-> <<v \div Radix, v % Radix>>,
         pre |-> <<index, timestamp, data, previous_hash, nonce>>]

compute_hash(b) ==
    Sha256(b.index, b.timestamp, b.data, b.previous_hash, b.nonce)

Zeros(difficulty) == [k \in 1 .. difficulty |-> 0]

startswith(h, prefix) ==
    /\ Len(prefix) <= Len(h.hex)
    /\ SubSeq(h.hex, 1, Len(prefix)) = prefix

mine_once(b, difficulty) == [b EXCEPT !.hash = compute_hash(b)]

RECURSIVE mine(_, _)
mine(b, difficulty) ==
    LET candidate == compute_hash(b)
    IN  IF startswith(candidate, Zeros(difficulty))
        THEN [b EXCEPT !.hash = candidate]
        ELSE mine([b EXCEPT !.nonce = b.nonce + 1], difficulty)

EmptyHash == [hex |-> <<>>, pre |-> <<>>]

Block(index, data, previous_hash, difficulty, timestamp, mine_immediately) ==
    LET b == [index |-> index, timestamp |-> timestamp, data |-> data,
              previous_hash |-> previous_hash, nonce |-> 0,
              hash |-> EmptyHash]
    IN  IF mine_immediately THEN mine(b, difficulty) ELSE b

----------------------------------------------------------------------------
(* Blockchain *)

_create_genesis_block(timestamp) ==
    Block(0, "Genesis Block", GenesisPreviousHash, GenesisDifficulty,
          timestamp, TRUE)

get_last_block_first(bc) == bc.chain[1]

get_last_block(bc) == bc.chain[Len(bc.chain)]

RewardData(miner_address) ==
    "Reward to " \o miner_address \o ": " \o ToString(mining_reward) \o " coins"

Credit_overwrite(rewards, miner_address) ==
    [m \in (DOMAIN rewards) \cup {miner_address} |->
        IF m = miner_address THEN mining_reward ELSE rewards[m]]

Credit(rewards, miner_address) ==
    LET old == IF miner_address \in DOMAIN rewards
               THEN rewards[miner_address] ELSE 0
    IN  [m \in (DOMAIN rewards) \cup {miner_address} |->
            IF m = miner_address THEN old + mining_reward ELSE rewards[m]]

NoRewards == [m \in {} |-> 0]

(* A Blockchain object is the record of its fields; chain_obj is the       *)
(* identity of the list object its chain field refers to.  Appending to    *)
(* the list or assigning to a block of it keeps the identity; assigning a  *)
(* newly built list to the field gives it the identity NewList, which the  *)
(* store resolves to an identity no other object holds.                    *)
NewList == "new list"

Blockchain(timestamp) ==
    [chain |-> <<_create_genesis_block(timestamp)>>,
     chain_obj |-> NewList,
     pending_rewards |-> NoRewards]

add_data_block_heal(bc, data, difficulty, timestamp) ==
    LET relinked == [bc.chain[3] EXCEPT !.previous_hash = bc.chain[2].hash]
        healed == IF Len(bc.chain) < 3 THEN bc
                  ELSE [bc EXCEPT !.chain[3] =
                           [relinked EXCEPT !.hash = compute_hash(relinked)]]
        last_block == get_last_block(healed)
        new_block == Block(Len(bc.chain), data, last_block.hash, difficulty,
                           timestamp, TRUE)
    IN  [healed EXCEPT !.chain = Append(@, new_block)]

add_data_block(bc, data, difficulty, timestamp) ==
    LET last_block == get_last_block(bc)
        new_block == Block(Len(bc.chain), data, last_block.hash, difficulty,
                           timestamp, TRUE)
    IN  [bc EXCEPT !.chain = Append(@, new_block)]

mine_reward_block_offbyone(bc, miner_address, difficulty, timestamp) ==
    LET reward_data == RewardData(miner_address)
        last_block == get_last_block(bc)
        new_block == Block(Len(bc.chain) + 1, reward_data, last_block.hash,
                           difficulty, timestamp, TRUE)
    IN  [bc EXCEPT !.chain = Append(@, new_block),
                   !.pending_rewards = Credit(@, miner_address)]

mine_reward_block(bc, miner_address, difficulty, timestamp) ==
    LET reward_data == RewardData(miner_address)
        last_block == get_last_block(bc)
        new_block == Block(Len(bc.chain), reward_data, last_block.hash,
                           difficulty, timestamp, TRUE)
    IN  [bc EXCEPT !.chain = Append(@, new_block),
                   !.pending_rewards = Credit(@, miner_address)]

HashError(i) == "Invalid hash at block index " \o ToString(i)

LinkError(i) ==
    "Broken chain between block " \o ToString(i - 1) \o " and " \o ToString(i)

RECURSIVE ValidateFrom_linkfirst(_, _)
ValidateFrom_linkfirst(c, i) ==
    IF i > Len(c) - 1 THEN <<TRUE, None>>
    ELSE LET current == c[i + 1]
             previous == c[i]
         IN  IF current.previous_hash # previous.hash
             THEN <<FALSE, LinkError(i)>>
             ELSE IF current.hash # compute_hash(current)
             THEN <<FALSE, HashError(i)>>
             ELSE ValidateFrom_linkfirst(c, i + 1)

RECURSIVE ValidateFrom_pow(_, _)
ValidateFrom_pow(c, i) ==
    IF i > Len(c) - 1 THEN <<TRUE, None>>
    ELSE LET current == c[i + 1]
             previous == c[i]
         IN  IF current.hash # compute_hash(current)
             THEN <<FALSE, HashError(i)>>
             ELSE IF current.previous_hash # previous.hash
             THEN <<FALSE, LinkError(i)>>
             ELSE IF ~startswith(current.hash, Zeros(DefaultDifficulty))
             THEN <<FALSE, HashError(i)>>
             ELSE ValidateFrom_pow(c, i + 1)

RECURSIVE ValidateFrom(_, _)
ValidateFrom(c, i) ==
    IF i > Len(c) - 1 THEN <<TRUE, None>>
    ELSE LET current == c[i + 1]
             previous == c[i]
         IN  IF current.hash # compute_hash(current)
             THEN <<FALSE, HashError(i)>>
             ELSE IF current.previous_hash # previous.hash
             THEN <<FALSE, LinkError(i)>>
             ELSE ValidateFrom(c, i + 1)

validate_chain(bc) == ValidateFrom(bc.chain, 1)

tamper_block_genesis(bc, index, new_data) ==
    IF index < 0 \/ index >= Len(bc.chain)
    THEN [val |-> FALSE, bc |-> bc]
    ELSE LET block == [bc.chain[index + 1] EXCEPT !.data = new_data]
         IN  [val |-> TRUE,
              bc |-> [bc EXCEPT !.chain[index + 1] =
                         [block EXCEPT !.hash = compute_hash(block)]]]

tamper_block_stale(bc, index, new_data) ==
    IF index <= 0 \/ index >= Len(bc.chain)
    THEN [val |-> FALSE, bc |-> bc]
    ELSE [val |-> TRUE,
          bc |-> [bc EXCEPT !.chain[index + 1].data = new_data]]

tamper_block(bc, index, new_data) ==
    IF index <= 0 \/ index >= Len(bc.chain)
    THEN [val |-> FALSE, bc |-> bc]
    ELSE LET block == [bc.chain[index + 1] EXCEPT !.data = new_data]
         IN  [val |-> TRUE,
              bc |-> [bc EXCEPT !.chain[index + 1] =
                         [block EXCEPT !.hash = compute_hash(block)]]]

RECURSIVE AttackFrom_norelink(_, _)
AttackFrom_norelink(c, i) ==
    IF i > Len(c) - 1 THEN c
    ELSE AttackFrom_norelink(
             [c EXCEPT ![i + 1] = [@ EXCEPT !.hash = compute_hash(c[i + 1])]],
             i + 1)

RECURSIVE AttackFrom(_, _)
AttackFrom(c, i) ==
    IF i > Len(c) - 1 THEN c
    ELSE LET previous_block == c[i]
             current_block == [c[i + 1] EXCEPT
                                  !.previous_hash = previous_block.hash]
         IN  AttackFrom([c EXCEPT ![i + 1] =
                            [current_block EXCEPT
                                !.hash = compute_hash(current_block)]],
                        i + 1)

simulate_51_attack_all(bc, start_index) ==
    [bc EXCEPT !.chain = AttackFrom(@, 1)]

simulate_51_attack(bc, start_index) ==
    [bc EXCEPT !.chain =
        AttackFrom(@, IF start_index <= 0 THEN 1 ELSE start_index)]

reset_keep_rewards(bc, timestamp) ==
    [bc EXCEPT !.chain = <<_create_genesis_block(timestamp)>>,
               !.chain_obj = NewList]

reset(bc, timestamp) ==
    [bc EXCEPT !.chain = <<_create_genesis_block(timestamp)>>,
               !.chain_obj = NewList,
               !.pending_rewards = NoRewards]

----------------------------------------------------------------------------
(* Node *)

Reconstruct(b) ==
    [Block(b.index, b.data, b.previous_hash, DefaultDifficulty,
           b.timestamp, FALSE)
        EXCEPT !.nonce = b.nonce, !.hash = b.hash]

sync_with_nonstrict(self, other_node) ==
    LET my_chain_len == Len(self.chain)
        other_chain_len == Len(other_node.chain)
        is_valid == validate_chain(other_node)[1]
    IN  IF other_chain_len >= my_chain_len /\ is_valid
        THEN [val |-> TRUE,
              bc |-> [self EXCEPT !.chain =
                         [i \in 1 .. other_chain_len |->
                             Reconstruct(other_node.chain[i])],
                                  !.chain_obj = NewList]]
        ELSE [val |-> FALSE, bc |-> self]

sync_with_rewards(self, other_node) ==
    LET my_chain_len == Len(self.chain)
        other_chain_len == Len(other_node.chain)
        is_valid == validate_chain(other_node)[1]
    IN  IF other_chain_len > my_chain_len /\ is_valid
        THEN [val |-> TRUE,
              bc |-> [chain |-> [i \in 1 .. other_chain_len |->
                                    Reconstruct(other_node.chain[i])],
                      chain_obj |-> NewList,
                      pending_rewards |-> other_node.pending_rewards]]
        ELSE [val |-> FALSE, bc |-> self]

sync_with_shorter(self, other_node) ==
    LET my_chain_len == Len(self.chain)
        other_chain_len == Len(other_node.chain)
        is_valid == validate_chain(other_node)[1]
    IN  IF other_chain_len # my_chain_len /\ is_valid
        THEN [val |-> TRUE,
              bc |-> [self EXCEPT !.chain =
                         [i \in 1 .. other_chain_len |->
                             Reconstruct(other_node.chain[i])],
                                  !.chain_obj = NewList]]
        ELSE [val |-> FALSE, bc |-> self]

sync_with_alias(self, other_node) ==
    LET my_chain_len == Len(self.chain)
        other_chain_len == Len(other_node.chain)
        is_valid == validate_chain(other_node)[1]
    IN  IF other_chain_len > my_chain_len /\ is_valid
        THEN [val |-> TRUE,
              bc |-> [self EXCEPT !.chain = other_node.chain,
                                  !.chain_obj = other_node.chain_obj]]
        ELSE [val |-> FALSE, bc |-> self]

sync_with(self, other_node) ==
    LET my_chain_len == Len(self.chain)
        other_chain_len == Len(other_node.chain)
        is_valid == validate_chain(other_node)[1]
    IN  IF other_chain_len > my_chain_len /\ is_valid
        THEN [val |-> TRUE,
              bc |-> [self EXCEPT !.chain =
                         [i \in 1 .. other_chain_len |->
                             Reconstruct(other_node.chain[i])],
                                  !.chain_obj = NewList]]
        ELSE [val |-> FALSE, bc |-> self]

----------------------------------------------------------------------------
(* History kept for the properties: how each chain came about, and the     *)
(* number of reward calls per miner since the chain was created or reset.  *)

Appends == [kind |-> "appends", at |-> 0]

Tampered(i) == [kind |-> "tampered", at |-> i]

Covered(i) == [kind |-> "covered", at |-> i]

Other == [kind |-> "other", at |-> 0]

NoCalls == [m \in Miners |-> 0]

----------------------------------------------------------------------------
(* State machine.  chain[n] and pending_rewards[n] are the two fields of   *)
(* node n's Blockchain object, chain_obj[n] is the identity of the list    *)
(* chain[n] refers to; ret is the last call and what it returned;          *)
(* frames[t] holds the position and the local variables of the call that   *)
(* request thread t is in the middle of.                                   *)

Threads == {"t1", "t2"}

Idle == [pc |-> "idle"]

NoFrames == [t \in Threads |-> Idle]

(* History kept for the properties: a sync_with call in progress records   *)
(* every value the source's chain takes while it runs.                     *)
SyncRunning == {"validate", "copy", "fill", "return"}

Observed ==
    [t \in Threads |->
        IF frames[t].pc \in SyncRunning
        THEN [frames[t] EXCEPT
                 !.seen = @ \cup {chain'[frames[t].other_node]}]
        ELSE frames[t]]

BC(n) ==
    [chain |-> chain[n], chain_obj |-> chain_obj[n],
     pending_rewards |-> pending_rewards[n]]

(* An identity for a list newly built by node n: one that no other node's  *)
(* chain field holds.                                                      *)
Allocate(n) ==
    LET held == { chain_obj[m] : m \in (DOMAIN chain_obj) \ {n} }
    IN  IF n \notin held THEN n ELSE CHOOSE i \in Nodes : i \notin held

(* Writing the fields of node n back.  A list mutated in place is seen by  *)
(* every node whose chain field refers to that same list; a newly assigned *)
(* list is seen by node n alone.                                           *)
Store(n, bc) ==
    /\ IF bc.chain_obj = chain_obj[n]
       THEN /\ chain' = [m \in DOMAIN chain |->
                            IF chain_obj[m] = chain_obj[n]
                            THEN bc.chain ELSE chain[m]]
            /\ chain_obj' = chain_obj
       ELSE /\ chain' = [chain EXCEPT ![n] = bc.chain]
            /\ chain_obj' = [chain_obj EXCEPT
                                ![n] = IF bc.chain_obj = NewList
                                       THEN Allocate(n) ELSE bc.chain_obj]
    /\ pending_rewards' = [pending_rewards EXCEPT ![n] = bc.pending_rewards]

Created(n) == Blockchain(IF n = Main THEN 1 ELSE 2)

Init ==
    /\ chain = [n \in Nodes |-> Created(n).chain]
    /\ chain_obj = [n \in Nodes |-> n]
    /\ pending_rewards = [n \in Nodes |-> Created(n).pending_rewards]
    /\ ret = [op |-> "init"]
    /\ story = [n \in Nodes |-> Appends]
    /\ calls = [n \in Nodes |-> NoCalls]
    /\ frames = NoFrames

AddDataBlock(n, data, difficulty, timestamp) ==
    /\ Store(n, add_data_block(BC(n), data, difficulty, timestamp))
    /\ ret' = [op |-> "add_data_block", node |-> n, difficulty |-> difficulty]
    /\ story' = [story EXCEPT
                    ![n] = IF @.kind = "appends" THEN Appends ELSE Other]
    /\ UNCHANGED calls
    /\ frames' = Observed

MineRewardBlock(n, miner_address, difficulty, timestamp) ==
    /\ Store(n, mine_reward_block(BC(n), miner_address, difficulty, timestamp))
    /\ ret' = [op |-> "mine_reward_block", node |-> n,
               miner_address |-> miner_address, difficulty |-> difficulty]
    /\ story' = [story EXCEPT
                    ![n] = IF @.kind = "appends" THEN Appends ELSE Other]
    /\ calls' = [calls EXCEPT ![n][miner_address] = @ + 1]
    /\ frames' = Observed

ValidateChain(n) ==
    /\ ret' = [op |-> "validate_chain", node |-> n,
               val |-> validate_chain(BC(n))]
    /\ UNCHANGED <<chain, chain_obj, pending_rewards, story, calls>>
    /\ frames' = Observed

TamperBlock(n, index, new_data) ==
    LET r == tamper_block(BC(n), index, new_data)
    IN  /\ Store(n, r.bc)
        /\ ret' = [op |-> "tamper_block", node |-> n, index |-> index,
                   new_data |-> new_data, val |-> r.val]
        /\ story' = [story EXCEPT
                        ![n] = IF ~r.val THEN @
                               ELSE IF @.kind = "appends" THEN Tampered(index)
                               ELSE Other]
        /\ UNCHANGED calls
        /\ frames' = Observed

Simulate51Attack(n, start_index) ==
    /\ Store(n, simulate_51_attack(BC(n), start_index))
    /\ ret' = [op |-> "simulate_51_attack", node |-> n,
               start_index |-> start_index]
    /\ story' = [story EXCEPT
                    ![n] = IF @.kind = "tampered" THEN Covered(@.at)
                           ELSE Other]
    /\ UNCHANGED calls
    /\ frames' = Observed

Reset(n, timestamp) ==
    /\ Store(n, reset(BC(n), timestamp))
    /\ ret' = [op |-> "reset", node |-> n]
    /\ story' = [story EXCEPT ![n] = Appends]
    /\ calls' = [calls EXCEPT ![n] = NoCalls]
    /\ frames' = Observed

SyncWith(n, other_node) ==
    LET r == sync_with(BC(n), BC(other_node))
    IN  /\ Store(n, r.bc)
        /\ ret' = [op |-> "sync_with", node |-> n, other_node |-> other_node,
                   val |-> r.val]
        /\ story' = [story EXCEPT
                        ![n] = IF ~r.val THEN @
                               ELSE IF story[other_node].kind = "appends"
                               THEN Appends ELSE Other]
        /\ UNCHANGED calls
        /\ frames' = Observed

(* The chains explored are bounded: an append is offered only while the   *)
(* chain has room.                                                         *)
Room(n) == Len(chain[n]) < MaxLen

Next ==
    \/ \E n \in Nodes, t \in Clock :
          Room(n) /\ MineRewardBlock(n, NetMiner, DefaultDifficulty, t)
    \/ \E n \in Nodes : ValidateChain(n)
    \/ \E n \in Nodes, i \in NetTamperInputs :
          TamperBlock(n, i, NetTamperData)
    \/ \E n \in Nodes, i \in NetAttackInputs : Simulate51Attack(n, i)
    \/ \E n \in Nodes, t \in Clock : Reset(n, t)
    \/ \E n \in Nodes, o \in Nodes : SyncWith(n, o)

Spec == Init /\ [][Next]_vars

ChainNext ==
    \/ \E t \in Clock :
          Room(Main) /\ AddDataBlock(Main, ChainData, DefaultDifficulty, t)
    \/ \E t \in Clock :
          Room(Main) /\ MineRewardBlock(Main, NetMiner, DefaultDifficulty, t)
    \/ ValidateChain(Main)
    \/ \E i \in IndexInputs, data \in DataValues : TamperBlock(Main, i, data)
    \/ \E i \in IndexInputs : Simulate51Attack(Main, i)
    \/ \E t \in Clock : Reset(Main, t)

ChainSpec == Init /\ [][ChainNext]_vars

MineNext ==
    \/ \E data \in DataValues, d \in Difficulties, t \in Timestamps :
          Room(Main) /\ AddDataBlock(Main, data, d, t)
    \/ \E m \in Miners, d \in Difficulties, t \in Timestamps :
          Room(Main) /\ MineRewardBlock(Main, m, d, t)
    \/ \E t \in Timestamps : Reset(Main, t)

MineSpec == Init /\ [][MineNext]_vars

(* validate_chain as a function of the chain alone: the chain of Main is   *)
(* any sequence of blocks built with the Block constructor, each linked to *)
(* its predecessor's stored hash or to "0", and each either carrying its   *)
(* own hash or left with the empty hash of an unmined block.               *)
Filled(b, filled) ==
    [b EXCEPT !.hash = IF filled THEN compute_hash(b) ELSE EmptyHash]

CandidateBlocks(c) ==
    { Filled(Block(Len(c), data, previous_hash, DefaultDifficulty, t, FALSE),
             filled) :
        data \in DataValues,
        previous_hash \in {c[Len(c)].hash, GenesisPreviousHash},
        t \in Clock,
        filled \in BOOLEAN }

RECURSIVE ChainsOfLen(_)
ChainsOfLen(k) ==
    IF k = 1
    THEN { <<g>> : g \in { _create_genesis_block(1),
                           [_create_genesis_block(1) EXCEPT
                               !.hash = EmptyHash] } }
    ELSE UNION { { Append(c, b) : b \in CandidateBlocks(c) } :
                 c \in ChainsOfLen(k - 1) }

ArbitraryChains == UNION { ChainsOfLen(k) : k \in 1 .. MaxLen }

ValidateInit ==
    /\ chain \in { [n \in Nodes |-> IF n = Main THEN c ELSE Created(n).chain] :
                   c \in ArbitraryChains }
    /\ chain_obj = [n \in Nodes |-> n]
    /\ pending_rewards = [n \in Nodes |-> NoRewards]
    /\ ret = [op |-> "init"]
    /\ story = [n \in Nodes |-> Other]
    /\ calls = [n \in Nodes |-> NoCalls]
    /\ frames = NoFrames

ValidateNext == ValidateChain(Main)

ValidateSpec == ValidateInit /\ [][ValidateNext]_vars

(* One blockchain that is appended to, validated, tampered with and       *)
(* attacked, and a peer that mines, each syncing with the other, with room *)
(* for one block more, so that a chain broken at its full length can still *)
(* grow.                                                                   *)
Peer == CHOOSE n \in Nodes : n # Main

Grows(n) == Len(chain[n]) < MaxLen + 1

GrowNext ==
    \/ \E t \in Clock :
          Grows(Main) /\ AddDataBlock(Main, ChainData, DefaultDifficulty, t)
    \/ \E n \in Nodes, t \in Clock :
          Grows(n) /\ MineRewardBlock(n, NetMiner, DefaultDifficulty, t)
    \/ ValidateChain(Main)
    \/ \E i \in NetTamperInputs : TamperBlock(Main, i, NetTamperData)
    \/ \E i \in NetAttackInputs : Simulate51Attack(Main, i)
    \/ \E n \in Nodes, o \in Nodes : SyncWith(n, o)

GrowSpec == Init /\ [][GrowNext]_vars

----------------------------------------------------------------------------
(* Request threads.  The handlers of app.py are plain functions, which the *)
(* framework runs on a pool of threads, and neither app.py nor the engine  *)
(* takes a lock: a handler's statements interleave with the other          *)
(* handlers.  Here one thread runs Node.sync_with statement by statement   *)
(* while other requests run between its statements.                        *)

Syncer == "t1"

Unfilled(b) ==
    Block(b.index, b.data, b.previous_hash, DefaultDifficulty, b.timestamp,
          FALSE)

SyncReadLengths(t, self, other_node) ==
    /\ frames[t].pc \in {"idle", "returned"}
    /\ frames' = [frames EXCEPT ![t] =
                     [pc |-> "validate", self |-> self,
                      other_node |-> other_node,
                      my_chain_len |-> Len(chain[self]),
                      other_chain_len |-> Len(chain[other_node]),
                      seen |-> {chain[other_node]}]]
    /\ UNCHANGED <<chain, chain_obj, pending_rewards, ret, story, calls>>

SyncValidate(t) ==
    LET f == frames[t]
        is_valid == validate_chain(BC(f.other_node))[1]
        adopt == f.other_chain_len > f.my_chain_len /\ is_valid
    IN  /\ f.pc = "validate"
        /\ frames' = [frames EXCEPT ![t] =
                         [pc |-> IF adopt THEN "copy" ELSE "return",
                          self |-> f.self, other_node |-> f.other_node,
                          my_chain_len |-> f.my_chain_len,
                          val |-> adopt, raised |-> FALSE,
                          result |-> chain[f.self], seen |-> f.seen]]
        /\ UNCHANGED <<chain, chain_obj, pending_rewards, ret, story, calls>>

SyncCopy(t) ==
    LET f == frames[t]
        source == chain[f.other_node]
    IN  /\ f.pc = "copy"
        /\ Store(f.self,
                 [BC(f.self) EXCEPT
                     !.chain = [i \in 1 .. Len(source) |-> Unfilled(source[i])],
                     !.chain_obj = NewList])
        /\ frames' = [frames EXCEPT ![t].pc = "fill"]
        /\ story' = [story EXCEPT ![f.self] = Other]
        /\ UNCHANGED <<ret, calls>>

(* The second loop indexes the target's list by the positions of the       *)
(* source's list as it is now: a source that has grown since the copy      *)
(* raises IndexError after the blocks before it were filled.               *)
SyncFill(t) ==
    LET f == frames[t]
        source == chain[f.other_node]
        target == chain[f.self]
        filled == [i \in 1 .. Len(target) |->
                      IF i <= Len(source)
                      THEN [target[i] EXCEPT !.nonce = source[i].nonce,
                                             !.hash = source[i].hash]
                      ELSE target[i]]
    IN  /\ f.pc = "fill"
        /\ Store(f.self, [BC(f.self) EXCEPT !.chain = filled])
        /\ frames' = [frames EXCEPT
                         ![t].pc = "return",
                         ![t].raised = Len(source) > Len(target),
                         ![t].result = filled]
        /\ UNCHANGED <<ret, story, calls>>

SyncReturn(t) ==
    LET f == frames[t]
    IN  /\ f.pc = "return"
        /\ ret' = [op |-> "sync_with", node |-> f.self,
                   other_node |-> f.other_node, val |-> f.val,
                   raised |-> f.raised]
        /\ frames' = [frames EXCEPT ![t].pc = "returned"]
        /\ UNCHANGED <<chain, chain_obj, pending_rewards, story, calls>>

SyncRaceNext ==
    \/ SyncReadLengths(Syncer, Main, Peer)
    \/ SyncValidate(Syncer)
    \/ SyncCopy(Syncer)
    \/ SyncFill(Syncer)
    \/ SyncReturn(Syncer)
    \/ \E n \in Nodes, t \in Clock :
          Room(n) /\ MineRewardBlock(n, NetMiner, DefaultDifficulty, t)
    \/ \E i \in NetTamperInputs : TamperBlock(Peer, i, NetTamperData)

SyncRaceSpec == Init /\ [][SyncRaceNext]_vars

(* Two threads appending to one blockchain.  An append reads the last      *)
(* block and the length, builds and mines the new block from them, and     *)
(* then appends it: the other thread's statements run in between.          *)

InFlight == Cardinality({ t \in Threads : frames[t].pc = "mining" })

AddDataBegin(t, n, data, difficulty, timestamp) ==
    LET last_block == get_last_block(BC(n))
    IN  /\ frames[t].pc = "idle"
        /\ frames' = [frames EXCEPT ![t] =
                         [pc |-> "mining", op |-> "add_data_block",
                          node |-> n, difficulty |-> difficulty,
                          new_block |-> Block(Len(chain[n]), data,
                                              last_block.hash, difficulty,
                                              timestamp, TRUE)]]
        /\ UNCHANGED <<chain, chain_obj, pending_rewards, ret, story, calls>>

AddDataEnd(t) ==
    LET f == frames[t]
    IN  /\ f.pc = "mining"
        /\ f.op = "add_data_block"
        /\ Store(f.node, [BC(f.node) EXCEPT !.chain = Append(@, f.new_block)])
        /\ ret' = [op |-> "add_data_block", node |-> f.node,
                   difficulty |-> f.difficulty]
        /\ frames' = [frames EXCEPT ![t] = Idle]
        /\ story' = [story EXCEPT ![f.node] = Other]
        /\ UNCHANGED calls

MineRewardBegin(t, n, miner_address, difficulty, timestamp) ==
    LET reward_data == RewardData(miner_address)
        last_block == get_last_block(BC(n))
    IN  /\ frames[t].pc = "idle"
        /\ frames' = [frames EXCEPT ![t] =
                         [pc |-> "mining", op |-> "mine_reward_block",
                          node |-> n, difficulty |-> difficulty,
                          miner_address |-> miner_address,
                          new_block |-> Block(Len(chain[n]), reward_data,
                                              last_block.hash, difficulty,
                                              timestamp, TRUE)]]
        /\ UNCHANGED <<chain, chain_obj, pending_rewards, ret, story, calls>>

MineRewardEnd(t) ==
    LET f == frames[t]
    IN  /\ f.pc = "mining"
        /\ f.op = "mine_reward_block"
        /\ Store(f.node,
                 [BC(f.node) EXCEPT
                     !.chain = Append(@, f.new_block),
                     !.pending_rewards = Credit(@, f.miner_address)])
        /\ ret' = [op |-> "mine_reward_block", node |-> f.node,
                   miner_address |-> f.miner_address,
                   difficulty |-> f.difficulty]
        /\ frames' = [frames EXCEPT ![t] = Idle]
        /\ story' = [story EXCEPT ![f.node] = Other]
        /\ calls' = [calls EXCEPT ![f.node][f.miner_address] = @ + 1]

AppendRaceNext ==
    \/ \E t \in Threads, data \in DataValues, clock \in Clock :
          /\ Len(chain[Main]) + InFlight < MaxLen
          /\ AddDataBegin(t, Main, data, DefaultDifficulty, clock)
    \/ \E t \in Threads : AddDataEnd(t)
    \/ \E t \in Threads, clock \in Clock :
          /\ Len(chain[Main]) + InFlight < MaxLen
          /\ MineRewardBegin(t, Main, NetMiner, DefaultDifficulty, clock)
    \/ \E t \in Threads : MineRewardEnd(t)
    \/ ValidateChain(Main)

AppendRaceSpec == Init /\ [][AppendRaceNext]_vars

----------------------------------------------------------------------------
(* Node registry of the request layer (app.py).  The registry is the       *)
(* domain of chain and pending_rewards: it starts empty, create_node adds  *)
(* a name, and the node endpoints look the names up.                       *)

create_node_replace(registry, name, timestamp) ==
    LET node == Blockchain(timestamp)
    IN  [message |-> "Node created", node |-> node,
         nodes |-> [k \in (DOMAIN registry) \cup {name} |->
                       IF k = name THEN node ELSE registry[k]]]

create_node(registry, name, timestamp) ==
    IF name \in DOMAIN registry
    THEN [message |-> "Node already exists", node |-> registry[name],
          nodes |-> registry]
    ELSE LET node == Blockchain(timestamp)
         IN  [message |-> "Node created", node |-> node,
              nodes |-> [k \in (DOMAIN registry) \cup {name} |->
                            IF k = name THEN node ELSE registry[k]]]

nodes == [n \in DOMAIN chain |-> BC(n)]

NotFound(op) == [op |-> op, error |-> "not found"]

CreateNode(name, timestamp) ==
    LET r == create_node(nodes, name, timestamp)
    IN  /\ chain' = [n \in DOMAIN r.nodes |-> r.nodes[n].chain]
        /\ chain_obj' = [n \in DOMAIN r.nodes |->
                            IF r.nodes[n].chain_obj = NewList
                            THEN Allocate(n) ELSE r.nodes[n].chain_obj]
        /\ pending_rewards' =
               [n \in DOMAIN r.nodes |-> r.nodes[n].pending_rewards]
        /\ ret' = [op |-> "create_node", name |-> name,
                   message |-> r.message, node |-> r.node]
        /\ UNCHANGED <<story, calls>>
        /\ frames' = Observed

NodeMine(node_name, miner_address, difficulty, timestamp) ==
    IF node_name \in DOMAIN chain
    THEN MineRewardBlock(node_name, miner_address, difficulty, timestamp)
    ELSE /\ ret' = NotFound("node_mine")
         /\ UNCHANGED <<chain, chain_obj, pending_rewards, story, calls>>
         /\ frames' = Observed

NodeSync(target_node, from_node) ==
    IF target_node \in DOMAIN chain /\ from_node \in DOMAIN chain
    THEN SyncWith(target_node, from_node)
    ELSE /\ ret' = NotFound("node_sync")
         /\ UNCHANGED <<chain, chain_obj, pending_rewards, story, calls>>
         /\ frames' = Observed

RegistryInit ==
    /\ chain = [n \in {} |-> <<>>]
    /\ chain_obj = [n \in {} |-> n]
    /\ pending_rewards = [n \in {} |-> NoRewards]
    /\ ret = [op |-> "init"]
    /\ story = [n \in Nodes |-> Appends]
    /\ calls = [n \in Nodes |-> NoCalls]
    /\ frames = NoFrames

RegistryNext ==
    \/ \E name \in Nodes, t \in Timestamps : CreateNode(name, t)
    \/ \E name \in Nodes, t \in Clock :
          /\ name \in DOMAIN chain => Room(name)
          /\ NodeMine(name, NetMiner, DefaultDifficulty, t)
    \/ \E target \in Nodes, from \in Nodes : NodeSync(target, from)

RegistrySpec == RegistryInit /\ [][RegistryNext]_vars

----------------------------------------------------------------------------
(* Properties *)

Ok == <<TRUE, None>>

(* Internal consistency of a chain, stated block by block. *)
Consistent(c) ==
    \A i \in 1 .. Len(c) - 1 :
        /\ c[i + 1].hash = compute_hash(c[i + 1])
        /\ c[i + 1].previous_hash = c[i].hash

(* What validate_chain returns for the chain c. *)
Validated(c) == validate_chain([chain |-> c, pending_rewards |-> NoRewards])

ValidIndex(c, i) == 1 <= i /\ i < Len(c)

(* C1: a chain built from a fresh genesis block by add_data_block and      *)
(* mine_reward_block alone validates as (True, None) after every step, and *)
(* every block links to its predecessor and carries its own hash.          *)
C1_AppendOnlyChainValid ==
    \A n \in Nodes :
        story[n].kind = "appends" =>
            /\ validate_chain(BC(n)) = Ok
            /\ Consistent(chain[n])

C1_Witness ==
    /\ story[Main].kind = "appends"
    /\ Len(chain[Main]) = MaxLen
    /\ ret.op = "mine_reward_block"
    /\ \E i \in 2 .. MaxLen : chain[Main][i].data \in DataValues

(* C2: sync_with returns True and makes the target's chain equal to the    *)
(* source's, field by field, exactly when the source's chain is strictly   *)
(* longer and internally consistent; otherwise it returns False and leaves *)
(* the target as it was.  No other node changes either way.                *)
C2_SyncIffLongerValid ==
    [][ret'.op = "sync_with" =>
        LET a == ret'.node
            b == ret'.other_node
            adopt == Len(chain[b]) > Len(chain[a]) /\ Consistent(chain[b])
        IN  /\ ret'.val = adopt
            /\ adopt =>
                 /\ Len(chain'[a]) = Len(chain[b])
                 /\ \A i \in 1 .. Len(chain[b]) :
                      /\ chain'[a][i].index = chain[b][i].index
                      /\ chain'[a][i].timestamp = chain[b][i].timestamp
                      /\ chain'[a][i].data = chain[b][i].data
                      /\ chain'[a][i].previous_hash = chain[b][i].previous_hash
                      /\ chain'[a][i].nonce = chain[b][i].nonce
                      /\ chain'[a][i].hash = chain[b][i].hash
            /\ ~adopt => chain'[a] = chain[a]
            /\ pending_rewards'[a] = pending_rewards[a]
            /\ \A m \in Nodes \ {a} :
                 chain'[m] = chain[m] /\ pending_rewards'[m] = pending_rewards[m]
    ]_vars

C2_Witness ==
    /\ ret.op = "sync_with"
    /\ ret.val
    /\ chain[ret.node] = chain[ret.other_node]
    /\ Len(chain[ret.node]) >= 2

(* C3: tamper_block with index <= 0 or index >= len(chain) returns False   *)
(* and changes no block, not the chain length and not the ledger.          *)
C3_TamperRejectsBadIndex ==
    [][(/\ ret'.op = "tamper_block"
        /\ (ret'.index <= 0 \/ ret'.index >= Len(chain[ret'.node])))
       => /\ ret'.val = FALSE
          /\ chain' = chain
          /\ pending_rewards' = pending_rewards
    ]_vars

C3_Witness ==
    /\ ret.op = "tamper_block"
    /\ ret.index = 0
    /\ ~ret.val
    /\ Len(chain[ret.node]) = MaxLen

(* C4 as claimed: after tamper_block at a valid index i of a consistent    *)
(* chain, tamper returns True and validation reports the linkage break at  *)
(* i+1 whenever i+1 < len(chain), and (True, None) when i is the last      *)
(* index.                                                                  *)
C4_Original ==
    [][(/\ ret'.op = "tamper_block"
        /\ ValidIndex(chain[ret'.node], ret'.index)
        /\ Consistent(chain[ret'.node]))
       => LET n == ret'.node
              i == ret'.index
          IN  /\ ret'.val = TRUE
              /\ Validated(chain'[n])
                   = IF i + 1 < Len(chain[n])
                     THEN <<FALSE, LinkError(i + 1)>>
                     ELSE Ok
    ]_vars

(* C4 amended: the linkage break at i+1 is reported when the new data      *)
(* differs from the data the block already holds; when it is the same      *)
(* data, or i is the last index, validation reports (True, None).          *)
C4_TamperBreaksNextLink ==
    [][(/\ ret'.op = "tamper_block"
        /\ ValidIndex(chain[ret'.node], ret'.index)
        /\ Consistent(chain[ret'.node]))
       => LET n == ret'.node
              i == ret'.index
          IN  /\ ret'.val = TRUE
              /\ Validated(chain'[n])
                   = IF /\ i + 1 < Len(chain[n])
                        /\ ret'.new_data # chain[n][i + 1].data
                     THEN <<FALSE, LinkError(i + 1)>>
                     ELSE Ok
    ]_vars

C4_Witness ==
    /\ ret.op = "tamper_block"
    /\ ret.val
    /\ ret.index = 1
    /\ Len(chain[ret.node]) = MaxLen
    /\ story[ret.node].kind = "tampered"
    /\ validate_chain(BC(ret.node)) = <<FALSE, LinkError(2)>>

(* C5 as claimed: on a chain built by appends, a tamper at a valid index i *)
(* followed by simulate_51_attack(start_index) with i <= start_index       *)
(* leaves a chain that validates as (True, None).                          *)
C5_Original ==
    [][(/\ ret'.op = "simulate_51_attack"
        /\ story[ret'.node].kind = "tampered"
        /\ story[ret'.node].at <= ret'.start_index)
       => Validated(chain'[ret'.node])
            = Ok
    ]_vars

(* C5 amended: the same with i <= start_index <= i + 1: the re-hash must   *)
(* start no later than the block after the tampered one.                   *)
C5_AttackCoversTamper ==
    [][(/\ ret'.op = "simulate_51_attack"
        /\ story[ret'.node].kind = "tampered"
        /\ story[ret'.node].at <= ret'.start_index
        /\ ret'.start_index <= story[ret'.node].at + 1)
       => Validated(chain'[ret'.node])
            = Ok
    ]_vars

C5_Witness ==
    /\ ret.op = "simulate_51_attack"
    /\ story[ret.node].kind = "covered"
    /\ ret.start_index = story[ret.node].at + 1
    /\ Len(chain[ret.node]) = MaxLen
    /\ chain[ret.node][story[ret.node].at + 1].data \in DataValues
    /\ validate_chain(BC(ret.node)) = Ok

(* A block as proof-of-work at difficulty d leaves it: d leading zero      *)
(* digits, the hash of its own five fields, and no smaller nonce that      *)
(* would have qualified.                                                   *)
Mined(b, d) ==
    /\ d <= Len(b.hash.hex)
    /\ \A k \in 1 .. d : b.hash.hex[k] = 0
    /\ b.hash = Sha256(b.index, b.timestamp, b.data, b.previous_hash, b.nonce)
    /\ \A m \in 0 .. b.nonce - 1 :
         \E k \in 1 .. d :
            Sha256(b.index, b.timestamp, b.data, b.previous_hash, m).hex[k] # 0

Appended == {"add_data_block", "mine_reward_block"}

(* C6: the genesis block is mined at difficulty 2, and the block a call of *)
(* add_data_block or mine_reward_block appends is mined at the requested   *)
(* difficulty: its hash has that many leading zeros, is the hash of its    *)
(* fields with the final nonce, and the nonce is the first from 0 that     *)
(* qualifies.                                                              *)
C6_MinedBlocks ==
    /\ \A n \in Nodes : Mined(chain[n][1], 2)
    /\ ret.op \in Appended =>
         Mined(chain[ret.node][Len(chain[ret.node])], ret.difficulty)

C6_Witness ==
    /\ ret.op = "add_data_block"
    /\ ret.difficulty = 2
    /\ Len(chain[ret.node]) = MaxLen
    /\ chain[ret.node][MaxLen].nonce > 0
    /\ chain[ret.node][1].nonce > 0

ExpectedRewardText(miner_address) ==
    CASE miner_address = "alice" -> "Reward to alice: 50 coins"
      [] miner_address = "bob" -> "Reward to bob: 50 coins"

Balance(rewards, m) == IF m \in DOMAIN rewards THEN rewards[m] ELSE 0

(* C7: a mine_reward_block call appends exactly one block, whose data      *)
(* names the miner and the reward 50, adds exactly 50 to that miner's      *)
(* balance (creating the entry when absent) and leaves every other entry   *)
(* as it was; the balance is 50 times the calls since the last reset.      *)
C7_RewardCredit ==
    [][ret'.op = "mine_reward_block" =>
        LET n == ret'.node
            m == ret'.miner_address
        IN  /\ Len(chain'[n]) = Len(chain[n]) + 1
            /\ SubSeq(chain'[n], 1, Len(chain[n])) = chain[n]
            /\ chain'[n][Len(chain'[n])].data = ExpectedRewardText(m)
            /\ DOMAIN pending_rewards'[n] = DOMAIN pending_rewards[n] \cup {m}
            /\ pending_rewards'[n][m] = Balance(pending_rewards[n], m) + 50
            /\ \A o \in DOMAIN pending_rewards[n] \ {m} :
                 pending_rewards'[n][o] = pending_rewards[n][o]
            /\ pending_rewards'[n][m] = 50 * calls'[n][m]
    ]_vars

C7_Witness ==
    /\ ret.op = "mine_reward_block"
    /\ ret.miner_address = "alice"
    /\ calls[ret.node]["alice"] = 2
    /\ pending_rewards[ret.node]["alice"] = 100

FreshGenesis(bc) ==
    /\ Len(bc.chain) = 1
    /\ bc.chain[1].index = 0
    /\ bc.chain[1].data = "Genesis Block"
    /\ bc.chain[1].previous_hash = GenesisPreviousHash
    /\ DOMAIN bc.pending_rewards = {}

(* C8: in every reachable state reset is defined on every node and yields  *)
(* a chain of one block, a genesis block with index 0, data "Genesis       *)
(* Block" and previous_hash "0", and an empty ledger; the state after a    *)
(* reset step is that state.                                               *)
C8_ResetToGenesis ==
    /\ \A n \in Nodes : \A t \in Clock : FreshGenesis(reset(BC(n), t))
    /\ ret.op = "reset" => FreshGenesis(BC(ret.node))

C8_Witness ==
    /\ ret.op = "reset"
    /\ chain[ret.node][1].timestamp \in Clock
    /\ story[ret.node].kind = "appends"
    /\ \E o \in Nodes \ {ret.node} :
         /\ Len(chain[o]) = MaxLen
         /\ DOMAIN pending_rewards[o] # {}

(* C9: a node's ledger changes only in a mine_reward_block or reset step   *)
(* on that node; add_data_block, validate_chain, tamper_block,             *)
(* simulate_51_attack and sync_with leave every ledger as it was, also     *)
(* when sync_with adopts the source's chain.                               *)
C9_LedgerFrame ==
    [][/\ \A n \in Nodes :
            pending_rewards'[n] # pending_rewards[n] =>
                ret'.node = n /\ ret'.op \in {"mine_reward_block", "reset"}
       /\ ret'.op \in {"add_data_block", "validate_chain", "tamper_block",
                       "simulate_51_attack", "sync_with"} =>
            pending_rewards' = pending_rewards
    ]_vars

C9_Witness ==
    /\ ret.op = "sync_with"
    /\ ret.val
    /\ DOMAIN pending_rewards[ret.node] = {}
    /\ DOMAIN pending_rewards[ret.other_node] # {}
    /\ \E i \in 1 .. Len(chain[ret.node]) :
         chain[ret.node][i].data = "Reward to alice: 50 coins"

(* C10: validate_chain returns the failure of the smallest index i >= 1    *)
(* whose block does not carry its own hash or does not link to block i-1,  *)
(* the hash failure first when a block has both; block 0 is not checked;   *)
(* it returns (True, None) exactly when no such index exists; and it       *)
(* changes neither chain nor ledger.                                       *)
C10_FirstFailureOnly ==
    [][ret'.op = "validate_chain" =>
        LET c == chain[ret'.node]
            HashBad(i) ==
                c[i + 1].hash # Sha256(c[i + 1].index, c[i + 1].timestamp,
                                       c[i + 1].data, c[i + 1].previous_hash,
                                       c[i + 1].nonce)
            LinkBad(i) == c[i + 1].previous_hash # c[i].hash
            bad == {i \in 1 .. Len(c) - 1 : HashBad(i) \/ LinkBad(i)}
            first == CHOOSE i \in bad : \A j \in bad : i <= j
        IN  /\ chain' = chain
            /\ pending_rewards' = pending_rewards
            /\ (ret'.val = Ok) <=> (bad = {})
            /\ bad # {} =>
                 ret'.val =
                    <<FALSE,
                      IF HashBad(first)
                      THEN "Invalid hash at block index " \o ToString(first)
                      ELSE "Broken chain between block "
                              \o ToString(first - 1) \o " and "
                              \o ToString(first)>>
    ]_vars

C10_Witness ==
    /\ ret.op = "validate_chain"
    /\ Len(chain[Main]) = MaxLen
    /\ chain[Main][1].hash = EmptyHash
    /\ chain[Main][MaxLen].hash = EmptyHash
    /\ chain[Main][MaxLen].previous_hash # chain[Main][MaxLen - 1].hash
    /\ ret.val = <<FALSE, HashError(MaxLen - 1)>>

(* C11: create_node is idempotent.  For a name already registered, also *)
(* after the node has mined or synced, it returns the existing node and    *)
(* leaves every chain, every ledger and the registry unchanged; for a new  *)
(* name it registers a node with a single genesis block and an empty       *)
(* ledger and leaves the other nodes unchanged.                            *)
C11_CreateNodeIdempotent ==
    [][ret'.op = "create_node" =>
          IF ret'.name \in DOMAIN chain
          THEN /\ chain' = chain
               /\ pending_rewards' = pending_rewards
               /\ ret'.message = "Node already exists"
               /\ ret'.node = BC(ret'.name)
          ELSE /\ DOMAIN chain' = (DOMAIN chain) \cup {ret'.name}
               /\ DOMAIN pending_rewards' = DOMAIN chain'
               /\ \E t \in Timestamps :
                      chain'[ret'.name] = <<_create_genesis_block(t)>>
               /\ pending_rewards'[ret'.name] = NoRewards
               /\ ret'.message = "Node created"
               /\ \A m \in DOMAIN chain :
                      /\ chain'[m] = chain[m]
                      /\ pending_rewards'[m] = pending_rewards[m]]_vars

C11_Witness ==
    /\ ret.op = "create_node"
    /\ ret.message = "Node already exists"
    /\ DOMAIN chain = Nodes
    /\ Len(chain[ret.name]) = MaxLen
    /\ pending_rewards[ret.name] # NoRewards
    /\ \E m \in Nodes \ {ret.name} : chain[m][1] = chain[ret.name][1]

(* C12: a successful sync_with gives the adopting node a list of its own,  *)
(* built from new blocks with the source's contents: no two nodes' chain   *)
(* fields ever refer to the same list, an adopting sync leaves the target  *)
(* with the source's blocks in a list distinct from the source's, and      *)
(* every operation changes the chain of the node it is called on only.     *)
C12_SyncCopiesDeeply ==
    [][/\ \A a \in Nodes : \A b \in Nodes \ {a} :
             chain_obj'[a] # chain_obj'[b]
       /\ \A m \in Nodes \ {ret'.node} : chain'[m] = chain[m]
       /\ (ret'.op = "sync_with" /\ ret'.val) =>
              /\ chain'[ret'.node] = chain[ret'.other_node]
              /\ chain'[ret'.other_node] = chain[ret'.other_node]
              /\ chain_obj'[ret'.node] # chain_obj'[ret'.other_node]]_vars

(* A node tampers with its chain after a peer adopted that chain: the      *)
(* peer still holds the blocks it adopted.                                 *)
C12_Witness ==
    /\ ret.op = "tamper_block"
    /\ ret.val
    /\ \E m \in Nodes \ {ret.node} :
          /\ chain[m][1] = Created(ret.node).chain[1]
          /\ chain[ret.node][1] = chain[m][1]
          /\ Len(chain[m]) = Len(chain[ret.node])
          /\ chain[m] # chain[ret.node]
          /\ validate_chain(BC(m)) = Ok

(* The blocks after genesis whose hash lacks the zero prefix of the        *)
(* difficulty the node operations mine at.                                 *)
Unproven(c) ==
    { i \in 2 .. Len(c) : ~startswith(c[i].hash, Zeros(DefaultDifficulty)) }

(* C13: validate_chain never checks the proof-of-work prefix.  Its verdict *)
(* is (True, None) exactly when every block after genesis carries its own  *)
(* hash and its predecessor's; a tamper followed by an attack from that    *)
(* index or from 1 therefore validates; and sync_with adopts every         *)
(* strictly longer chain that is consistent in this sense, whether or not  *)
(* its hashes carry the mined prefix.                                      *)
C13_ValidateIgnoresProofOfWork ==
    [][/\ \A n \in Nodes : Validated(chain'[n])[1] = Consistent(chain'[n])
       /\ (/\ ret'.op = "simulate_51_attack"
           /\ story[ret'.node].kind = "tampered"
           /\ ret'.start_index \in {story[ret'.node].at, 1}) =>
              Validated(chain'[ret'.node]) = Ok
       /\ (/\ ret'.op = "sync_with"
           /\ Len(chain[ret'.other_node]) > Len(chain[ret'.node])
           /\ Consistent(chain[ret'.other_node])) =>
              /\ ret'.val
              /\ chain'[ret'.node] = chain[ret'.other_node]]_vars

(* A shorter node has adopted a chain that validates although one of its   *)
(* hashes lacks the mined prefix.                                          *)
C13_Witness ==
    /\ ret.op = "sync_with"
    /\ ret.val
    /\ validate_chain(BC(ret.node)) = Ok
    /\ Unproven(chain[ret.node]) # {}
    /\ story[ret.other_node].kind = "covered"

(* C14: simulate_51_attack(start_index) changes nothing but the           *)
(* previous_hash and hash of the blocks at index >= max(start_index, 1).   *)
(* The chain keeps its length, genesis and every block below the clamped   *)
(* start keep all their fields, every block keeps index, timestamp, data   *)
(* and nonce, the ledger is unchanged, and a start_index at or beyond the  *)
(* length changes nothing.                                                 *)
C14_AttackFrame ==
    [][ret'.op = "simulate_51_attack" =>
          LET n == ret'.node
              start == IF ret'.start_index <= 0 THEN 1 ELSE ret'.start_index
          IN  /\ Len(chain'[n]) = Len(chain[n])
              /\ pending_rewards' = pending_rewards
              /\ \A m \in Nodes \ {n} : chain'[m] = chain[m]
              /\ \A i \in 1 .. Len(chain[n]) :
                     /\ chain'[n][i].index = chain[n][i].index
                     /\ chain'[n][i].timestamp = chain[n][i].timestamp
                     /\ chain'[n][i].data = chain[n][i].data
                     /\ chain'[n][i].nonce = chain[n][i].nonce
                     /\ i - 1 < start => chain'[n][i] = chain[n][i]
              /\ ret'.start_index >= Len(chain[n]) => chain'[n] = chain[n]]_vars

(* An attack with start_index 0 has re-linked the block after a tampered   *)
(* block 1 of a full chain.                                                *)
C14_Witness ==
    /\ ret.op = "simulate_51_attack"
    /\ ret.start_index <= 0
    /\ story[Main] = Covered(1)
    /\ Len(chain[Main]) = MaxLen
    /\ chain[Main][2].data # ChainData
    /\ validate_chain(BC(Main)) = Ok

(* The operations that may change what validate_chain reports for the     *)
(* chain they are called on.                                               *)
Rewrites(r) ==
    \/ r.op \in {"tamper_block", "simulate_51_attack", "reset"}
    \/ r.op = "sync_with" /\ r.val

(* C15: the engine never repairs a chain by itself.  While validate_chain  *)
(* reports a chain invalid, its verdict and first-failure error stay the   *)
(* same across every add_data_block, mine_reward_block and validate_chain, *)
(* and change only by a tamper, attack or reset of that chain or by its    *)
(* node adopting a peer's chain; and no sync_with adopts an invalid chain, *)
(* whatever its length.                                                    *)
C15_NoAutoRepair ==
    [][/\ \A n \in Nodes :
             (/\ ~Validated(chain[n])[1]
              /\ Validated(chain'[n]) # Validated(chain[n])) =>
                 ret'.node = n /\ Rewrites(ret')
       /\ (ret'.op = "sync_with" /\ ~Validated(chain[ret'.other_node])[1]) =>
              /\ ~ret'.val
              /\ chain' = chain]_vars

(* A broken chain has grown by an append beyond the shorter, valid peer,   *)
(* and still reports the break between blocks 1 and 2.                     *)
C15_Witness ==
    /\ ret.op \in {"add_data_block", "mine_reward_block"}
    /\ ret.node = Main
    /\ Len(chain[Main]) = MaxLen + 1
    /\ validate_chain(BC(Main)) = <<FALSE, LinkError(2)>>
    /\ Len(chain[Peer]) < Len(chain[Main])
    /\ validate_chain(BC(Peer)) = Ok

(* C16: sync_with is atomic with respect to concurrent mutation of either *)
(* chain.  Interleaved with mine_reward_block and tamper_block, a call     *)
(* completes without raising, and when it returns True the chain it        *)
(* left in the target equals one value the source's chain had during the   *)
(* call, strictly longer than the target was and valid.                    *)
C16_SyncAtomic ==
    \A t \in Threads :
        frames[t].pc = "returned" =>
            /\ ~frames[t].raised
            /\ frames[t].val =>
                   \E snapshot \in frames[t].seen :
                       /\ frames[t].result = snapshot
                       /\ Len(snapshot) > frames[t].my_chain_len
                       /\ Validated(snapshot) = Ok

(* C17: when two add_data_block or mine_reward_block requests on one      *)
(* blockchain overlap, every block still has the index of its position     *)
(* and the hash of the block before it as previous_hash, and               *)
(* validate_chain returns (True, None).                                    *)
C17_OverlappingAppends ==
    LET c == chain[Main]
    IN  /\ \A i \in 1 .. Len(c) : c[i].index = i - 1
        /\ \A i \in 2 .. Len(c) : c[i].previous_hash = c[i - 1].hash
        /\ validate_chain(BC(Main)) = Ok

IndexedByPosition(c) == \A i \in 1 .. Len(c) : c[i].index = i - 1

(* C18: in every state reached by the operations called one after another  *)
(* on any nodes, every block's index equals its position in its chain;    *)
(* the chain a reset would leave has the same property.                    *)
C18_IndexIsPosition ==
    \A n \in Nodes :
        /\ IndexedByPosition(chain[n])
        /\ \A t \in Clock : IndexedByPosition(reset(BC(n), t).chain)

(* Both nodes hold chains of the greatest length, one of them adopted and  *)
(* the other tampered with and re-linked.                                  *)
C18_Witness ==
    /\ ret.op = "simulate_51_attack"
    /\ story[Main].kind = "covered"
    /\ Len(chain[Main]) = MaxLen + 1
    /\ Len(chain[Peer]) = MaxLen + 1
    /\ chain[Peer][1] = chain[Main][1]
    /\ chain[Peer] # chain[Main]

(* C19: every chain always holds at least one block.  An append adds      *)
(* exactly one block to its chain; tamper_block, simulate_51_attack and    *)
(* validate_chain keep the length; a sync_with that returns True makes the *)
(* target strictly longer, as long as the source; one that returns False   *)
(* keeps it; no step changes the length of another node's chain; and only  *)
(* reset shortens a chain, to one block.                                   *)
C19_LengthMonotone ==
    [][/\ \A n \in Nodes : Len(chain'[n]) >= 1
       /\ \A n \in Nodes \ {ret'.node} : Len(chain'[n]) = Len(chain[n])
       /\ \A n \in Nodes, t \in Clock : Len(reset(BC(n), t).chain) = 1
       /\ LET n == ret'.node
              before == Len(chain[n])
              after == Len(chain'[n])
          IN  /\ ret'.op \in {"add_data_block", "mine_reward_block"} =>
                     after = before + 1
              /\ ret'.op \in {"tamper_block", "simulate_51_attack",
                               "validate_chain"} =>
                     after = before
              /\ (ret'.op = "sync_with" /\ ret'.val) =>
                     /\ after > before
                     /\ after = Len(chain[ret'.other_node])
              /\ (ret'.op = "sync_with" /\ ~ret'.val) => after = before
              /\ ret'.op # "reset" => after >= before]_vars

(* The blockchain under attack has adopted the peer's longest chain.       *)
C19_Witness ==
    /\ ret.op = "sync_with"
    /\ ret.val
    /\ ret.node = Main
    /\ ret.other_node = Peer
    /\ Len(chain[Main]) = MaxLen + 1
    /\ chain[Main] = chain[Peer]

(* C20: sync_with of a node with itself returns False, and right after a  *)
(* sync_with(A, B) that returned True, sync_with(A, B) and sync_with(B, A) *)
(* both return False and leave both nodes as they are.                     *)
C20_SyncSettles ==
    /\ \A n \in Nodes :
          /\ ~sync_with(BC(n), BC(n)).val
          /\ sync_with(BC(n), BC(n)).bc = BC(n)
    /\ (ret.op = "sync_with" /\ ret.node = ret.other_node) => ~ret.val
    /\ (ret.op = "sync_with" /\ ret.val) =>
          LET again == sync_with(BC(ret.node), BC(ret.other_node))
              back == sync_with(BC(ret.other_node), BC(ret.node))
          IN  /\ ~again.val
              /\ again.bc = BC(ret.node)
              /\ ~back.val
              /\ back.bc = BC(ret.other_node)

(* The peer has adopted a tampered and re-linked chain of the greatest     *)
(* length.                                                                 *)
C20_Witness ==
    /\ ret.op = "sync_with"
    /\ ret.val
    /\ ret.node = Peer
    /\ Len(chain[Peer]) = MaxLen + 1
    /\ story[Main].kind = "covered"
    /\ pending_rewards[Peer] # pending_rewards[Main]

====
